---- MODULE Spec2Model ----
(***************************************************************************)
(* Model of the sailing-AI behavioural-cloning pipeline:                   *)
(*   training/dataset.py      load_and_split (seeded train/validation      *)
(*                            split of the dataset's index range)          *)
(*   training/train.py        train (epoch loop, early stopping,           *)
(*                            best-checkpoint persistence)                 *)
(*   training/export_onnx.py  export (checkpoint -> ONNX artifact)         *)
(*                                                                         *)
(* Floating-point values are modelled as follows.  val_fraction is the     *)
(* double nearest pct / 100 for a whole percentage pct, and the split      *)
(* point is int() of the double-precision product n * (1 - val_fraction),  *)
(* computed exactly from the rounding error of 1 - val_fraction.  A loss   *)
(* is a record: a finite non-negative rational num/den, +infinity, or NaN, *)
(* with the IEEE-754 rules for addition, division by a positive integer    *)
(* and "<".                                                                *)
(*                                                                         *)
(* The seeded generator is the stream of 32-bit words PCG64 produces for   *)
(* the seed; rng.permutation(n) is computed from it as numpy does, by a    *)
(* Fisher-Yates shuffle of arange(n) with masked rejection sampling.       *)
(***************************************************************************)
EXTENDS Integers, Sequences, FiniteSets

VARIABLES
    \* ---- dataset.py: load_and_split ----
    rows,        \* len(ds): number of rows of the CSV file
    oracle,      \* permutations the seeded generators have returned so far
    rng,         \* Generator object of the latest call: seed, words consumed
    first,       \* inputs and result of the first call of load_and_split
    last,        \* inputs and result of the latest call of load_and_split
    \* ---- train.py: train ----
    args,        \* parsed command line: epochs, batch_size, patience
    pc,          \* position of the pipeline
    train_len,   \* len(train_ds)
    val_len,     \* len(val_ds)
    epoch,       \* loop variable of the epoch loop (0 before the first epoch)
    params,      \* model parameters, as the number of optimizer steps applied
    train_loss, train_batches, val_loss, val_batches,
    avg_train, avg_val,
    best_val_loss, patience_counter,
    checkpoint,  \* file at args.output (the checkpoint path)
    exit_kind,   \* how the epoch loop was left
    val_history, \* avg_val of every epoch executed, in order
    params_history, \* params at the end of every epoch executed
    params_at_train_start, \* params when the current epoch's train phase began
    writes,      \* epochs in which torch.save wrote the checkpoint
    \* ---- export_onnx.py: export ----
    loaded,      \* state dict loaded into the fresh model, or "none"
    onnx_file,   \* file at the export's args.output
    printed      \* whether the export's confirmation was printed

splitVars == <<rows, oracle, rng, first, last>>
trainData == <<args, train_len, val_len, epoch, params, train_loss,
               train_batches, val_loss, val_batches, avg_train, avg_val,
               best_val_loss, patience_counter, checkpoint, exit_kind,
               val_history, params_history, params_at_train_start, writes>>
trainVars == <<pc, trainData>>
exportVars == <<loaded, onnx_file, printed>>
vars == <<splitVars, trainVars, exportVars>>

----------------------------------------------------------------------------
\* Bounds of the model.
MaxRows == 5
MaxTrainRows == 5
MaxBatchSize == 2
MaxEpochs == 3
MaxPatience == 2
MaxLoss == 2

\* Defaults of load_and_split, which train passes explicitly.
DefaultValPct == 20
DefaultSeed == 42

\* Seeds and validation fractions (in percent) load_and_split is called with.
Seeds == {DefaultSeed, 7, 1}
ValPcts == {-25, 0, DefaultValPct, 25, 50, 80, 100, 125}

----------------------------------------------------------------------------
\* dataset.py

Min(a, b) == IF a <= b THEN a ELSE b
Max(a, b) == IF a >= b THEN a ELSE b

\* The double 1 - val_fraction, val_fraction the double nearest pct / 100,
\* as its distance from the exact |100 - pct| / 100 in units of
\* 1 / (100 * 2^60); entry pct + 26 is for pct, pct in -25..125.
OneMinusErrTable ==
    <<0, -1024, -2048, -3072, -4096, -5120, -6144, -7168,
       -8192, -9216, -10240, 14336, -12288, 12288, 11264, 10240,
       9216, 8192, 7168, 6144, 5120, 4096, 3072, 2048,
       1024, 0, -1024, -2048, -3072, -4096, -5120, -6144,
       -7168, 4608, 3584, 2560, 1536, 512, -512, -1536,
       -2560, -3584, -4608, 7168, 6144, 5120, 4096, 3072,
       2048, 1024, 0, -1024, -2048, -3072, -4096, -5120,
       -6144, -7168, -8192, -9216, 2560, 1536, 512, -512,
       -1536, -2560, 9216, 8192, 7168, 6144, 5120, 4096,
       3072, 2048, 1024, 0, -1024, -2048, -3072, -4096,
       -5120, -6144, 5632, 4608, 3584, 2560, 1536, 512,
       -512, -1536, -2560, -3584, -4608, -5632, 6144, 5120,
       4096, 3072, 2048, 1024, 0, -1024, -2048, -3072,
       -4096, -5120, -6144, 5632, 4608, 3584, 2560, 1536,
       512, -512, -1536, -2560, -3584, -4608, -5632, 6144,
       5120, 4096, 3072, 2048, 1024, 0, 1024, 2048,
       3072, 4096, 5120, 6144, 7168, 8192, 9216, 10240,
       11264, 12288, -12288, -11264, -10240, -9216, -8192, -7168,
       -6144, -5120, -4096, -3072, -2048, -1024, 0>>
MinPct == -25
MaxPct == 125
OneMinusErr(pct) == OneMinusErrTable[pct - MinPct + 1]

Abs(x) == IF x >= 0 THEN x ELSE -x
RECURSIVE Pow2(_)
Pow2(k) == IF k = 0 THEN 1 ELSE 2 * Pow2(k - 1)
\* floor(log2(q)) for q >= 1
RECURSIVE Log2(_)
Log2(q) == IF q <= 1 THEN 0 ELSE 1 + Log2(q \div 2)

\* split = int(n * (1 - val_fraction)) in double precision, val_fraction the
\* double nearest pct / 100.  The exact product is |100 - pct| * n / 100
\* plus n times the error of 1 - val_fraction.  When the exact quotient q0
\* has a remainder, or the error is not negative, the product truncates to
\* q0.  Otherwise the product lies just below the integer q0 and is rounded
\* (to nearest, ties to even) up to q0 only when its distance from q0 is at
\* most half the spacing of the doubles below q0; if not, it truncates to
\* q0 - 1.  int() truncates toward zero, so a negative product (pct > 100)
\* gives the negated magnitude.
SplitPoint(n, pct) ==
    LET na == n * Abs(100 - pct)
        q0 == na \div 100
        r0 == na % 100
        t == OneMinusErr(pct)
        k == Log2(q0)
        gap == (IF q0 = Pow2(k) THEN 2 ELSE 1) * n * Abs(t)
        mag == IF r0 /= 0 \/ t >= 0 \/ q0 = 0 THEN q0
               ELSE IF gap <= 100 * Pow2(7 + k) THEN q0
               ELSE q0 - 1
    IN IF pct <= 100 THEN mag ELSE -mag

\* A slice bound i of a sequence of length n, as Python normalises it.
PyBound(i, n) == IF i < 0 THEN Max(i + n, 0) ELSE Min(i, n)

\* indices[:split] and indices[split:]
SliceTo(s, split) == SubSeq(s, 1, PyBound(split, Len(s)))
SliceFromOverlap(s, split) ==
    SubSeq(s, Max(PyBound(split, Len(s)), 1), Len(s))
SliceFrom(s, split) == SubSeq(s, PyBound(split, Len(s)) + 1, Len(s))

\* The 32-bit words next_uint32 returns for a PCG64 generator seeded through
\* SeedSequence(seed), in order, each reduced modulo 2^StreamBits: the
\* shuffle of at most 2^StreamBits entries reads only these low bits.
StreamBits == 4
Stream(seed) ==
    CASE seed = 42 -> <<8, 13, 1, 1, 4, 2, 13, 14, 11, 5, 12, 13, 1, 15, 0, 3,
                  3, 6, 14, 9, 9, 11, 15, 6, 6, 1, 6, 13, 3, 10, 10, 14,
                  2, 3, 15, 3, 14, 0, 12, 0, 5, 3, 15, 14, 9, 13, 12, 7>>
      [] seed = 7 -> <<11, 9, 5, 12, 2, 15, 2, 11, 5, 9, 4, 7, 0, 6, 13, 15,
                  14, 9, 1, 7, 8, 10, 5, 2, 0, 15, 2, 1, 14, 15, 13, 1,
                  11, 8, 3, 11, 7, 2, 14, 3, 9, 9, 1, 5, 13, 15, 11, 15>>
      [] seed = 1 -> <<15, 3, 6, 11, 13, 6, 2, 14, 9, 0, 8, 5, 4, 3, 10, 12,
                  10, 2, 2, 2, 5, 14, 4, 10, 8, 10, 10, 8, 5, 4, 14, 12,
                  11, 1, 13, 5, 5, 4, 12, 2, 3, 1, 5, 13, 6, 7, 13, 7>>

\* rng = np.random.default_rng(seed): a fresh generator, a function of seed.
ReusedRng(seed) ==
    IF rng.seed = seed THEN rng ELSE [seed |-> seed, pos |-> 0]
DefaultRng(seed) == [seed |-> seed, pos |-> 0]

\* random_interval(bitgen, max): a uniform value in [0, max], drawn by
\* masking the next word to the bits of max and rejecting values above max.
RECURSIVE RandomInterval(_, _)
RandomInterval(g, max) ==
    IF max = 0 THEN [value |-> 0, rng |-> g]
    ELSE LET mask == Pow2(Log2(max) + 1) - 1
             value == Stream(g.seed)[g.pos + 1] % (mask + 1)
             g2 == [g EXCEPT !.pos = @ + 1]
         IN IF value <= max THEN [value |-> value, rng |-> g2]
            ELSE RandomInterval(g2, max)

\* The sequence a with the entries at (zero-based) positions i and j swapped.
Swap(a, i, j) ==
    [k \in 1..Len(a) |-> IF k = i + 1 THEN a[j + 1]
                         ELSE IF k = j + 1 THEN a[i + 1] ELSE a[k]]

\* The shuffle loop: for i = n - 1 down to 1, swap entry i with entry
\* random_interval(i).  The draw r and the swapped array b are each bound
\* as the single element of a set, so that each is evaluated once.
RECURSIVE ShuffleRaw(_, _, _)
ShuffleRaw(a, i, g) ==
    IF i < 1 THEN [perm |-> a, rng |-> g]
    ELSE CHOOSE out \in
            UNION {{ShuffleRaw(b, i - 1, r.rng) : b \in {Swap(a, i, r.value)}} :
                      r \in {RandomInterval(g, i)}} : TRUE

\* rng.permutation(n): arange(n), shuffled.
Permutation(g, n) == ShuffleRaw([i \in 1..n |-> i - 1], n - 1, g)

NoRng == [seed |-> -1, pos |-> 0]
NoCall == [n |-> -1, pct |-> 0, seed |-> 0, train |-> <<>>, val |-> <<>>,
           repeat |-> FALSE, mixed |-> FALSE]

\* Lines 40-49 of load_and_split(csv_path, val_fraction, seed) on a file of
\* `rows` rows: fresh generator, one permutation, the two views.  The result
\* records whether an earlier call exists (repeat) and whether a call with
\* inputs other than the first call's lies between (mixed).
SplitCall(pct, seed) ==
    LET n == rows
        g == DefaultRng(seed)
        drawn == Permutation(g, n)
        indices == drawn.perm
        split == SplitPoint(n, pct)
        res == [n |-> n, pct |-> pct, seed |-> seed,
                train |-> SliceTo(indices, split),
                val |-> SliceFrom(indices, split),
                repeat |-> first /= NoCall,
                mixed |-> /\ first /= NoCall
                          /\ \/ last.mixed
                             \/ last.pct /= first.pct
                             \/ last.seed /= first.seed]
    IN /\ oracle' = oracle \cup
            {[seed |-> g.seed, pos |-> g.pos, n |-> n, perm |-> indices]}
       /\ rng' = drawn.rng
       /\ last' = res
       /\ first' = IF first = NoCall THEN res ELSE first

\* load_and_split called on its own.
LoadAndSplit(pct, seed) ==
    /\ SplitCall(pct, seed)
    /\ UNCHANGED <<rows, trainVars, exportVars>>

----------------------------------------------------------------------------
\* Floating-point losses.

Fin(num, den) == [kind |-> "fin", num |-> num, den |-> den]
Inf == [kind |-> "inf", num |-> 0, den |-> 1]
NaN == [kind |-> "nan", num |-> 0, den |-> 1]

\* What loss.item() can be for one validation batch: a finite loss,
\* +infinity (overflow) or NaN.
BatchLosses == {Fin(v, 1) : v \in 0..MaxLoss} \cup {Inf, NaN}
\* What loss.item() can be for one train batch; the train loss is only
\* summed and printed, so one finite value and NaN stand for all.
TrainBatchLosses == {Fin(MaxLoss, 1), NaN}

\* a + b
FAdd(a, b) ==
    IF a.kind = "nan" \/ b.kind = "nan" THEN NaN
    ELSE IF a.kind = "inf" \/ b.kind = "inf" THEN Inf
    ELSE Fin(a.num * b.den + b.num * a.den, a.den * b.den)

\* a / k for an integer k >= 1
FDiv(a, k) == IF a.kind = "fin" THEN Fin(a.num, a.den * k) ELSE a

\* a < b: false when either side is NaN
FLessOrEqual(a, b) ==
    /\ a.kind /= "nan" /\ b.kind /= "nan"
    /\ \/ b.kind = "inf"
       \/ a.kind = "fin" /\ b.kind = "fin" /\ a.num * b.den <= b.num * a.den
FLess(a, b) ==
    /\ a.kind /= "nan" /\ b.kind /= "nan"
    /\ a.kind = "fin"
    /\ \/ b.kind = "inf"
       \/ a.num * b.den < b.num * a.den

\* a == b as floats (NaN equals nothing)
FEq(a, b) ==
    /\ a.kind /= "nan" /\ b.kind /= "nan"
    /\ \/ a.kind = "inf" /\ b.kind = "inf"
       \/ a.kind = "fin" /\ b.kind = "fin" /\ a.num * b.den = b.num * a.den

Unset == [kind |-> "unset", num |-> 0, den |-> 1]

----------------------------------------------------------------------------
\* model.py

INPUT_DIM == 19
OUTPUT_DIM == 2
FirstWidth == 128

\* Parameter shapes of the four linear layers of a network whose first hidden
\* layer has width w; SailingAI() has w = 128.
LayerShapes(w) == <<<<INPUT_DIM, w>>, <<w, 64>>, <<64, 32>>, <<32, OUTPUT_DIM>>>>
SailingAI == LayerShapes(FirstWidth)

----------------------------------------------------------------------------
\* train.py

\* The file at the checkpoint path.
Absent == [exists |-> FALSE, sig |-> <<>>, params |-> 0]
StateDict(sig, p) == [exists |-> TRUE, sig |-> sig, params |-> p]
\* The state dict of a model whose first hidden layer is half as wide.
NarrowCheckpoint == StateDict(LayerShapes(FirstWidth \div 2), -1)
\* Files that may lie at the checkpoint path before train runs: none, one of
\* an earlier run of this model, one of a model with a narrower first layer.
EarlierCheckpoints ==
    {Absent, StateDict(SailingAI, -1), NarrowCheckpoint}

\* len(DataLoader(ds, batch_size, drop_last=True))
NumTrainBatches(len, bs) == len \div bs
\* len(DataLoader(ds, batch_size)): the short tail batch is kept
NumValBatches(len, bs) == (len + bs - 1) \div bs

\* DataLoader(train_ds, shuffle=True) builds a RandomSampler, which rejects
\* an empty data source with a ValueError.
LoaderRaises(len) == len = 0

\* sum / max(batches, 1)
Average(sum, batches) == FDiv(sum, Max(batches, 1))

\* if avg_val < best_val_loss
Improves(avg, best) == FLess(avg, best)

\* best_val_loss = avg_val
KeepBest(avg, best) == best
NewBest(avg, best) == avg

\* if patience_counter >= args.patience
StopLate(counter, patience) == counter > patience
Stop(counter, patience) == counter >= patience

\* len(train_ds) for a file of n rows split at val_fraction = pct / 100.
TrainLen(n, pct) == PyBound(SplitPoint(n, pct), n)

\* Lines 17-32: split, loaders, model, optimizer, best_val_loss, counter.
Setup ==
    /\ pc = "start"
    /\ SplitCall(DefaultValPct, DefaultSeed)
    /\ LET tl == Len(last'.train)
       IN /\ train_len' = tl
          /\ val_len' = Len(last'.val)
          /\ IF LoaderRaises(tl)
             THEN /\ pc' = "failed"
                  /\ UNCHANGED <<best_val_loss, patience_counter>>
             ELSE /\ pc' = "loop"
                  /\ best_val_loss' = Inf
                  /\ patience_counter' = 0
    /\ UNCHANGED <<rows, exportVars, args, epoch, params, train_loss,
                   train_batches, val_loss, val_batches, avg_train, avg_val,
                   checkpoint, exit_kind, val_history, params_history,
                   params_at_train_start, writes>>

\* Line 34, next epoch; lines 35-37.
EpochBegin ==
    /\ pc = "loop"
    /\ epoch < args.epochs
    /\ epoch' = epoch + 1
    /\ train_loss' = Fin(0, 1)
    /\ train_batches' = 0
    /\ params_at_train_start' = params
    /\ pc' = "train"
    /\ UNCHANGED <<splitVars, exportVars, args, train_len, val_len, params,
                   val_loss, val_batches, avg_train, avg_val, best_val_loss,
                   patience_counter, checkpoint, exit_kind, val_history,
                   params_history, writes>>

\* Line 34, range exhausted; lines 78-79.
LoopExit ==
    /\ pc = "loop"
    /\ epoch >= args.epochs
    /\ exit_kind' = "normal"
    /\ pc' = "trained"
    /\ UNCHANGED <<splitVars, exportVars, args, train_len, val_len, epoch,
                   params, train_loss, train_batches, val_loss, val_batches,
                   avg_train, avg_val, best_val_loss, patience_counter,
                   checkpoint, val_history, params_history,
                   params_at_train_start, writes>>

\* Lines 38-46: one train batch, one optimizer step.
TrainBatch ==
    /\ pc = "train"
    /\ train_batches < NumTrainBatches(train_len, args.batch_size)
    /\ \E loss \in TrainBatchLosses :
        /\ params' = params + 1
        /\ train_loss' = FAdd(train_loss, loss)
        /\ train_batches' = train_batches + 1
    /\ UNCHANGED <<splitVars, exportVars, args, pc, train_len, val_len, epoch,
                   val_loss, val_batches, avg_train, avg_val, best_val_loss,
                   patience_counter, checkpoint, exit_kind, val_history,
                   params_history, params_at_train_start, writes>>

\* Lines 48-52: train loader exhausted; scheduler step; validation begins.
TrainDone ==
    /\ pc = "train"
    /\ train_batches >= NumTrainBatches(train_len, args.batch_size)
    /\ val_loss' = Fin(0, 1)
    /\ val_batches' = 0
    /\ pc' = "val"
    /\ UNCHANGED <<splitVars, exportVars, args, train_len, val_len, epoch,
                   params, train_loss, train_batches, avg_train, avg_val,
                   best_val_loss, patience_counter, checkpoint, exit_kind,
                   val_history, params_history, params_at_train_start, writes>>

\* Lines 54-59: one validation batch, no gradient, no optimizer step.
ValBatch ==
    /\ pc = "val"
    /\ val_batches < NumValBatches(val_len, args.batch_size)
    /\ \E loss \in BatchLosses :
        /\ val_loss' = FAdd(val_loss, loss)
        /\ val_batches' = val_batches + 1
    /\ UNCHANGED <<splitVars, exportVars, args, pc, train_len, val_len, epoch,
                   params, train_loss, train_batches, avg_train, avg_val,
                   best_val_loss, patience_counter, checkpoint, exit_kind,
                   val_history, params_history, params_at_train_start, writes>>

\* Lines 61-76: averages, then the best-loss / early-stopping decision.
EpochEnd ==
    /\ pc = "val"
    /\ val_batches >= NumValBatches(val_len, args.batch_size)
    /\ LET at == Average(train_loss, train_batches)
           av == Average(val_loss, val_batches)
       IN /\ avg_train' = at
          /\ avg_val' = av
          /\ val_history' = Append(val_history, av)
          /\ params_history' = Append(params_history, params)
          /\ IF Improves(av, best_val_loss)
             THEN /\ best_val_loss' = NewBest(av, best_val_loss)
                  /\ patience_counter' = 0
                  /\ checkpoint' = StateDict(SailingAI, params)
                  /\ writes' = writes \cup {epoch}
                  /\ pc' = "loop"
                  /\ UNCHANGED exit_kind
             ELSE /\ patience_counter' = patience_counter + 1
                  /\ IF Stop(patience_counter + 1, args.patience)
                     THEN pc' = "trained" /\ exit_kind' = "early"
                     ELSE pc' = "loop" /\ UNCHANGED exit_kind
                  /\ UNCHANGED <<best_val_loss, checkpoint, writes>>
    /\ UNCHANGED <<splitVars, exportVars, args, train_len, val_len, epoch,
                   params, train_loss, train_batches, val_loss, val_batches,
                   params_at_train_start>>

----------------------------------------------------------------------------
\* export_onnx.py

NoFile == [state |-> "absent", params |-> 0]
OldFile == [state |-> "old", params |-> -1]
Artifact(p) == [state |-> "exported", params |-> p]
NotLoaded == [exists |-> FALSE, sig |-> <<>>, params |-> 0]

\* torch.load fails on a missing file; load_state_dict (strict) fails unless
\* the parameter names and shapes are those of the fresh model.
LoadFails(file) == ~file.exists \/ file.sig /= SailingAI

\* The export's --output path is not touched by train; it may already hold
\* the artifact of an earlier export when export is run.
EarlierArtifact ==
    /\ pc \in {"trained", "failed"}
    /\ onnx_file = NoFile
    /\ onnx_file' = OldFile
    /\ UNCHANGED <<splitVars, pc, trainData, loaded, printed>>

\* Lines 10-12: fresh model, torch.load, load_state_dict, eval.
ExportLoadWritesFirst ==
    /\ pc \in {"trained", "failed"}
    /\ onnx_file' = Artifact(0)
    /\ IF LoadFails(checkpoint)
       THEN pc' = "export_failed" /\ UNCHANGED loaded
       ELSE pc' = "export_loaded" /\ loaded' = checkpoint
    /\ UNCHANGED <<splitVars, trainData, printed>>
ExportLoad ==
    /\ pc \in {"trained", "failed"}
    /\ IF LoadFails(checkpoint)
       THEN pc' = "export_failed" /\ UNCHANGED loaded
       ELSE pc' = "export_loaded" /\ loaded' = checkpoint
    /\ UNCHANGED <<splitVars, trainData, onnx_file, printed>>

\* Lines 14-28: torch.onnx.export writes the artifact.
ExportOnnx ==
    /\ pc = "export_loaded"
    /\ onnx_file' = Artifact(loaded.params)
    /\ pc' = "export_written"
    /\ UNCHANGED <<splitVars, trainData, loaded, printed>>

\* Lines 29-31: the confirmation.
ExportPrint ==
    /\ pc = "export_written"
    /\ printed' = TRUE
    /\ pc' = "exported"
    /\ UNCHANGED <<splitVars, trainData, loaded, onnx_file>>

----------------------------------------------------------------------------
\* Specifications.

\* Variables of train and export before either has run.
TrainIdle ==
    /\ pc = "start"
    /\ train_len = 0 /\ val_len = 0
    /\ epoch = 0 /\ params = 0
    /\ train_loss = Unset /\ train_batches = 0
    /\ val_loss = Unset /\ val_batches = 0
    /\ avg_train = Unset /\ avg_val = Unset
    /\ best_val_loss = Unset /\ patience_counter = 0
    /\ exit_kind = "none"
    /\ val_history = <<>> /\ params_history = <<>>
    /\ params_at_train_start = 0
    /\ writes = {}
    /\ loaded = NotLoaded
    /\ printed = FALSE

\* Variables of load_and_split before any call.
SplitIdle ==
    /\ oracle = {}
    /\ rng = NoRng
    /\ first = NoCall
    /\ last = NoCall

\* The splitter alone, called any number of times on one file.
InitSplit ==
    /\ rows \in 0..MaxRows
    /\ SplitIdle
    /\ TrainIdle
    /\ args = [epochs |-> 0, batch_size |-> 1, patience |-> 1]
    /\ checkpoint = Absent
    /\ onnx_file = NoFile

NextSplit == \E pct \in ValPcts, seed \in Seeds : LoadAndSplit(pct, seed)

SplitSpec == InitSplit /\ [][NextSplit]_vars

\* One run of train on one file, followed by one run of export.
Init ==
    /\ rows \in 0..MaxTrainRows
    /\ SplitIdle
    /\ TrainIdle
    /\ args \in [epochs : 0..MaxEpochs, batch_size : 1..MaxBatchSize,
                 patience : 0..MaxPatience]
    /\ checkpoint \in EarlierCheckpoints
    /\ onnx_file = NoFile

Next ==
    \/ Setup
    \/ EpochBegin
    \/ TrainBatch
    \/ TrainDone
    \/ ValBatch
    \/ EpochEnd
    \/ LoopExit
    \/ EarlierArtifact
    \/ ExportLoad
    \/ ExportOnnx
    \/ ExportPrint

Spec == Init /\ [][Next]_vars

\* The pipeline is a sequential program: it takes its next step when it has one.
LiveSpec == Init /\ [][Next]_vars /\ WF_vars(Next)

----------------------------------------------------------------------------
\* Properties of load_and_split (checked under SplitSpec).

Range(s) == {s[i] : i \in 1..Len(s)}
Called == last /= NoCall
InUnitInterval(pct) == pct >= 0 /\ pct <= 100

\* C1: for every dataset length n, every val_fraction in [0, 1] and every
\* seed, the index sets of the train view and of the validation view are
\* disjoint, their union is exactly [0, n), and the two lengths sum to n.
C1_SplitIsPartition ==
    (Called /\ InUnitInterval(last.pct)) =>
        /\ Range(last.train) \cap Range(last.val) = {}
        /\ Range(last.train) \cup Range(last.val) = 0..(last.n - 1)
        /\ Len(last.train) + Len(last.val) = last.n

C1_Witness ==
    /\ Called /\ InUnitInterval(last.pct)
    /\ last.n >= 3
    /\ Len(last.train) >= 1
    /\ Len(last.val) >= 2

\* The permutation the generator seeded with last.seed returned to the
\* latest call.
LastPermutation ==
    (CHOOSE o \in oracle :
        o.seed = last.seed /\ o.pos = 0 /\ o.n = last.n).perm

\* C7: the train view is the first floor(n * (1 - val_fraction)) entries of
\* the seeded permutation of [0, n) and the validation view the remaining
\* n - floor(n * (1 - val_fraction)) entries, both in permutation order;
\* with val_fraction = 0.2 a file of 1000 rows gives views of 800 and 200.
C7_SplitPoint ==
    /\ (Called /\ InUnitInterval(last.pct)) =>
          LET k == (last.n * (100 - last.pct)) \div 100
          IN /\ Len(last.train) = k
             /\ Len(last.val) = last.n - k
             /\ last.train = SubSeq(LastPermutation, 1, k)
             /\ last.val = SubSeq(LastPermutation, k + 1, last.n)
    /\ TrainLen(1000, DefaultValPct) = 800
    /\ 1000 - TrainLen(1000, DefaultValPct) = 200

\* C5: a call of load_and_split with the inputs (file, val_fraction, seed) of
\* an earlier call returns the same train indices and the same validation
\* indices, in the same order.
C5_SplitIsDeterministic ==
    (last.repeat /\ last.n = first.n /\ last.pct = first.pct
                 /\ last.seed = first.seed) =>
        /\ last.train = first.train
        /\ last.val = first.val

C5_Witness ==
    /\ last.repeat
    /\ last.n = first.n /\ last.pct = first.pct /\ last.seed = first.seed
    /\ last.n >= 3 /\ last.pct = DefaultValPct
    /\ last.mixed
    /\ Cardinality(oracle) >= 2

----------------------------------------------------------------------------
\* Properties of train and export (checked under Spec and LiveSpec).

\* Number of epochs executed to their end.
Executed == Len(val_history)
LoopLeft == exit_kind /= "none"

\* The minimum of +infinity and the average validation losses of epochs
\* 1..k; a NaN average is no number and does not take part.
PrefixMin(k) ==
    LET cand == {Inf} \cup ({val_history[i] : i \in 1..k} \ {NaN})
    IN CHOOSE m \in cand : \A x \in cand : FLessOrEqual(m, x)

\* Epoch e strictly improved on the best loss seen before it.
ImprovingEpoch(e) == FLess(val_history[e], PrefixMin(e - 1))

SetMax(S) == CHOOSE m \in S : \A x \in S : x <= m
SetMin(S) == CHOOSE m \in S : \A x \in S : m <= x

\* The last of the epochs 1..k that improved; 0 when none did.
LastImproving(k) == SetMax({0} \cup {e \in 1..k : ImprovingEpoch(e)})

\* C2 as stated: when the epoch loop is left, the last epoch executed is at
\* most patience epochs after the epoch of the best loss, the last epoch that
\* strictly improved on the best validation loss.
C2_AsStated ==
    (LoopLeft /\ LastImproving(Executed) >= 1) =>
        epoch <= LastImproving(Executed) + args.patience

\* C2, amended: the last epoch executed is at most max(patience, 1) epochs
\* after the last epoch that strictly improved on the best validation loss
\* (epoch 0 when no epoch improved), at every point of the run.
C2_StopsWithinPatience ==
    /\ Executed <= LastImproving(Executed) + Max(args.patience, 1)
    /\ LoopLeft => /\ epoch = Executed
                   /\ epoch <= LastImproving(Executed) + Max(args.patience, 1)

C2_Witness ==
    /\ exit_kind = "early"
    /\ args.patience >= 1
    /\ epoch < args.epochs
    /\ LastImproving(Executed) >= 1
    /\ epoch = LastImproving(Executed) + args.patience

\* The epochs 1..k whose average validation loss is the lowest of those
\* epochs' losses.
LowestEpochs(k) ==
    {e \in 1..k : /\ val_history[e].kind /= "nan"
                  /\ \A i \in 1..k : val_history[i].kind /= "nan"
                                       => FLessOrEqual(val_history[e], val_history[i])}

\* C3: the checkpoint is written in an epoch exactly when that epoch's
\* average validation loss is strictly lower than the best seen before it,
\* and is otherwise untouched; so after any number of epochs it holds the
\* parameters as they were at the end of the earliest epoch that achieved the
\* lowest average validation loss so far.
C3_CheckpointIsEarliestBest ==
    /\ \A e \in 1..Executed : e \in writes <=> ImprovingEpoch(e)
    /\ LowestEpochs(Executed) /= {} =>
          checkpoint =
              StateDict(SailingAI, params_history[SetMin(LowestEpochs(Executed))])

\* C4: in every run that executes at least one epoch, epoch 1 counts as an
\* improvement on the initial infinite best loss and saves a checkpoint, so
\* a checkpoint of this run exists from then on.
C4_FirstEpochSaves ==
    Executed >= 1 => /\ 1 \in writes
                     /\ checkpoint.exists
                     /\ checkpoint.params >= 0

\* C6: when the train view has fewer rows than batch_size no error is
\* raised, every epoch runs zero train batches, applies no optimizer step
\* (the parameters stay as constructed) and reports an average train loss of
\* 0; an epoch with zero validation batches reports an average validation
\* loss of 0.
C6_TinyTrainView ==
    /\ (pc /= "start" /\ train_len < args.batch_size) =>
          /\ pc /= "failed"
          /\ train_batches = 0
          /\ params = 0
          /\ Executed >= 1 => FEq(avg_train, Fin(0, 1))
    /\ (Executed >= 1 /\ NumValBatches(val_len, args.batch_size) = 0) =>
          FEq(avg_val, Fin(0, 1))

\* C9: after every epoch best_val_loss is the minimum of the average
\* validation losses of the epochs executed so far (+infinity before epoch
\* 1), it never increases, and the value reported when training ends is that
\* minimum over the epochs actually run.
C9_BestIsMinimum ==
    /\ [](best_val_loss /= Unset => FEq(best_val_loss, PrefixMin(Executed)))
    /\ [][best_val_loss /= Unset
            => FLessOrEqual(best_val_loss', best_val_loss)]_vars

C9_Witness ==
    /\ pc = "trained"
    /\ Executed >= 3
    /\ best_val_loss.kind = "fin"
    /\ FLess(best_val_loss, val_history[1])
    /\ FLess(best_val_loss, val_history[Executed])

\* Number of consecutive non-improving epochs that end with epoch k.
Stall(k) == k - LastImproving(k)

\* C10: the epoch loop terminates, either normally after epoch max_epochs or
\* early at the first epoch at which the stall counter reaches patience; the
\* number of epochs executed never exceeds max_epochs; and, for patience >=
\* 1, the stall counter at the end of each epoch is the number of consecutive
\* non-improving epochs since the last improving one and lies in
\* [0, patience - 1] whenever a further epoch starts.
C10_Inv ==
    /\ epoch <= args.epochs
    /\ Executed <= epoch
    /\ exit_kind \in {"none", "normal", "early"}
    /\ exit_kind = "normal" =>
          /\ epoch = args.epochs /\ Executed = epoch
          /\ args.patience >= 1 => Stall(Executed) < args.patience
    /\ exit_kind = "early" =>
          /\ epoch >= 1 /\ Executed = epoch
          /\ ~ImprovingEpoch(epoch)
          /\ args.patience >= 1 =>
                /\ Stall(epoch) = args.patience
                /\ \A e \in 1..(epoch - 1) : Stall(e) < args.patience
    /\ (args.patience >= 1 /\ pc \notin {"start", "failed"}) =>
          /\ pc \notin {"train", "val"} => patience_counter = Stall(Executed)
          /\ pc \in {"train", "val"} =>
                /\ patience_counter = Stall(epoch - 1)
                /\ patience_counter >= 0
                /\ patience_counter <= args.patience - 1

\* C10: C10_Inv holds throughout and the epoch loop is eventually left.
C10_LoopTerminates ==
    /\ []C10_Inv
    /\ <>(pc \notin {"start", "loop", "train", "val"})

C10_Witness ==
    /\ pc = "train"
    /\ epoch = 3
    /\ args.patience = 2
    /\ patience_counter = 1
    /\ LastImproving(Executed) = 1

\* C8: when the checkpoint cannot be loaded into the fresh model (missing
\* file, or parameter names or shapes that differ), export fails with the
\* output path neither created nor modified and no confirmation printed; the
\* artifact is only ever written from a state dict that was loaded.
C8_FailsBeforeWriting ==
    /\ pc = "export_failed" => /\ onnx_file \in {NoFile, OldFile}
                               /\ ~printed
    /\ onnx_file.state = "exported" => /\ loaded.exists
                                       /\ loaded.sig = SailingAI
                                       /\ onnx_file.params = loaded.params

C8_Witness ==
    /\ pc = "export_failed"
    /\ checkpoint = NarrowCheckpoint
    /\ onnx_file = OldFile
    /\ Executed >= 1

====
